---- MODULE Spec2Model ----
(***************************************************************************)
(* Model of cachesim.c: a set-associative cache simulator with LRU         *)
(* replacement.  main() validates the geometry and builds the cache,       *)
(* read_file() applies one trace record per loop iteration.  B (line 219)   *)
(* and verbose are never read by the simulation and are left out.          *)
(***************************************************************************)
EXTENDS Integers, Naturals, Sequences, FiniteSets, TLC

\* ------------------------------------------------------------------------
\* Bounds of the exploration
\* ------------------------------------------------------------------------
MaxS == 1
MaxB == 1
MaxE == 2
MaxAddr == 11
MaxTrace == 4
MaxNegE == 1

Kinds == {"I", "L", "S", "M"}
Addrs == 0..MaxAddr

VARIABLES
  pc,              \* "main", "usage", "read_file", "crashed", "done"
  s, b, E,         \* globals set from the command line
  S,               \* number of sets, derived in main
  cache,           \* cache[i][j], i in 0..S-1, j in 0..E-1
  hit_count, miss_count, eviction_count,
  global_timer,
  nread,           \* history: records read so far
  nLS, nM,         \* history: Load/Store and Modify records read so far
  accessed,        \* history: <<index, tag>> of each L/S/M record, in order
  ref,             \* history: reference LRU cache run on the same trace
  filtered,        \* history: the program run on the trace without I records
  dec              \* decoder specification only: << >> or <<the decoded record>>

vars == <<pc, s, b, E, S, cache, hit_count, miss_count, eviction_count,
          global_timer, nread, nLS, nM, accessed, ref, filtered, dec>>

\* ------------------------------------------------------------------------
\* Arithmetic helpers
\* ------------------------------------------------------------------------
RECURSIVE Pow2(_)
Pow2(n) == IF n <= 0 THEN 1 ELSE 2 * Pow2(n - 1)

ShiftRight(x, n) == x \div Pow2(n)

ShiftLeft(x, n) == x * Pow2(n)

RECURSIVE BitAnd(_, _)
BitAnd(x, y) ==
  IF x = 0 \/ y = 0 THEN 0
  ELSE (x % 2) * (y % 2) + 2 * BitAnd(x \div 2, y \div 2)

\* line 71
Tag(addr) == ShiftRight(addr, b + s)

\* line 72
Index(addr) == BitAnd(ShiftRight(addr, b), ShiftLeft(1, s) - 1)

\* ------------------------------------------------------------------------
\* Cache lines
\* ------------------------------------------------------------------------
\* lines 235-237
EmptyLine == [valid_bit |-> 0, lru |-> 0, tag |-> 0]

\* lines 231-239
EmptyCacheMutant(nsets, nlines) ==
  [i \in 0..(nsets - 1) |-> [j \in 0..(nlines - 1) |-> [valid_bit |-> 0, lru |-> 0, tag |-> j]]]

EmptyCache(nsets, nlines) == [i \in 0..(nsets - 1) |-> [j \in 0..(nlines - 1) |-> EmptyLine]]

\* line 75 (global_timer is unsigned long long; the bounds stay far below 2^64)
TickMutant(t) == t

Tick(t) == t + 1

\* line 77
IsAccessMutant(k) == TRUE

IsAccess(k) == k = "L" \/ k = "S" \/ k = "M"

\* line 130
IsModifyMutant(k) == FALSE

IsModify(k) == k = "M"

\* line 85 / line 134
IsHitMutant(ln, tag) == tag = ln.tag /\ ln.valid_bit = 1 /\ ln.lru = 0

IsHit(ln, tag) == tag = ln.tag /\ ln.valid_bit = 1

\* line 92
IsInvalidMatchMutant(ln, tag) == ln.valid_bit # 1

IsInvalidMatch(ln, tag) == tag = ln.tag /\ ln.valid_bit # 1

\* line 103
IsFreeMutant(ln) == ln.valid_bit = 1

IsFree(ln) == ln.lru = 0

\* line 118
OlderMutant(a, c) == a.lru > c.lru

Older(a, c) == a.lru < c.lru

\* ------------------------------------------------------------------------
\* The loops of read_file.  lc is the state the loops work on:
\*   set, if_dealt_with, hit_count, miss_count, eviction_count
\* ------------------------------------------------------------------------
\* lines 82-98
RECURSIVE LookupLoop(_, _, _, _)
LookupLoop(lc, tag, timer, i) ==
  IF i >= E THEN lc
  ELSE IF IsHit(lc.set[i], tag) /\ lc.if_dealt_with = 0
       THEN LookupLoop([lc EXCEPT !.if_dealt_with = @ + 1,
                                  !.hit_count = @ + 1,
                                  !.set[i].lru = timer], tag, timer, i + 1)
  ELSE IF IsInvalidMatch(lc.set[i], tag) /\ lc.if_dealt_with = 0
       THEN LookupLoop([lc EXCEPT !.if_dealt_with = @ + 1,
                                  !.miss_count = @ + 1,
                                  !.set[i].valid_bit = 1,
                                  !.set[i].lru = timer], tag, timer, i + 1)
  ELSE LookupLoop(lc, tag, timer, i + 1)

\* lines 102-110
RECURSIVE FillLoopMutant(_, _, _, _)
FillLoopMutant(lc, tag, timer, i) ==
  IF i >= E THEN lc
  ELSE IF IsFree(lc.set[i])
       THEN FillLoopMutant([lc EXCEPT !.miss_count = @ + 1,
                                      !.set[i].tag = tag,
                                      !.set[i].valid_bit = 1,
                                      !.set[i].lru = timer,
                                      !.if_dealt_with = @ + 1], tag, timer, i + 1)
  ELSE FillLoopMutant(lc, tag, timer, i + 1)

RECURSIVE FillLoop(_, _, _, _)
FillLoop(lc, tag, timer, i) ==
  IF i >= E THEN lc
  ELSE IF IsFree(lc.set[i]) /\ lc.if_dealt_with = 0
       THEN FillLoop([lc EXCEPT !.miss_count = @ + 1,
                                !.set[i].tag = tag,
                                !.set[i].valid_bit = 1,
                                !.set[i].lru = timer,
                                !.if_dealt_with = @ + 1], tag, timer, i + 1)
  ELSE FillLoop(lc, tag, timer, i + 1)

\* lines 116-121
RECURSIVE MinIndexLoop(_, _, _)
MinIndexLoop(set, min_index, i) ==
  IF i >= E THEN min_index
  ELSE IF Older(set[i], set[min_index])
       THEN MinIndexLoop(set, i, i + 1)
  ELSE MinIndexLoop(set, min_index, i + 1)

\* lines 114-126
EvictMutant(lc, tag, timer) ==
  LET min_index == MinIndexLoop(lc.set, 0, 1)
  IN [lc EXCEPT !.eviction_count = @ + 1,
                !.set[min_index].tag = tag,
                !.set[min_index].valid_bit = 1,
                !.set[min_index].lru = timer]

Evict(lc, tag, timer) ==
  LET min_index == MinIndexLoop(lc.set, 0, 1)
  IN [lc EXCEPT !.miss_count = @ + 1,
                !.eviction_count = @ + 1,
                !.set[min_index].tag = tag,
                !.set[min_index].valid_bit = 1,
                !.set[min_index].lru = timer]

\* lines 133-139
RECURSIVE ModifyLoop(_, _, _, _)
ModifyLoop(lc, tag, timer, i) ==
  IF i >= E THEN lc
  ELSE IF IsHit(lc.set[i], tag) /\ lc.if_dealt_with = 0
       THEN ModifyLoop([lc EXCEPT !.if_dealt_with = @ + 1,
                                  !.hit_count = @ + 1,
                                  !.set[i].lru = timer], tag, timer, i + 1)
  ELSE ModifyLoop(lc, tag, timer, i + 1)

\* lines 77-127: the L/S/M block
AccessBlock(lc, tag, timer) ==
  LET l1 == LookupLoop(lc, tag, timer, 0)
      l2 == IF l1.if_dealt_with = 0 THEN FillLoop(l1, tag, timer, 0) ELSE l1
  IN IF l2.if_dealt_with = 0 THEN Evict(l2, tag, timer) ELSE l2

\* lines 130-140: the second lookup of a Modify
ModifyBlockMutant(lc, tag, timer) == ModifyLoop(lc, tag, timer, 0)

ModifyBlock(lc, tag, timer) == ModifyLoop([lc EXCEPT !.if_dealt_with = 0], tag, timer, 0)

\* lines 61-142: one iteration of the loop, on a run
\*   [cache, hit_count, miss_count, eviction_count, global_timer]
LoopBodyMutant(run, k, addr) ==
  LET tag == Tag(addr)
      index == Index(addr)
      timer == IF IsAccess(k) THEN Tick(run.global_timer) ELSE run.global_timer
      lc0 == [set |-> run.cache[index], if_dealt_with |-> 0,
              hit_count |-> run.hit_count, miss_count |-> run.miss_count,
              eviction_count |-> run.eviction_count]
      lc1 == IF IsAccess(k) THEN AccessBlock(lc0, tag, timer) ELSE lc0
      lc2 == IF IsModify(k) THEN ModifyBlock(lc1, tag, timer) ELSE lc1
  IN [cache |-> [run.cache EXCEPT ![index] = lc2.set],
      hit_count |-> lc2.hit_count,
      miss_count |-> lc2.miss_count,
      eviction_count |-> lc2.eviction_count,
      global_timer |-> timer]

LoopBody(run, k, addr) ==
  LET tag == Tag(addr)
      index == Index(addr)
      timer == Tick(run.global_timer)
      lc0 == [set |-> run.cache[index], if_dealt_with |-> 0,
              hit_count |-> run.hit_count, miss_count |-> run.miss_count,
              eviction_count |-> run.eviction_count]
      lc1 == IF IsAccess(k) THEN AccessBlock(lc0, tag, timer) ELSE lc0
      lc2 == IF IsModify(k) THEN ModifyBlock(lc1, tag, timer) ELSE lc1
  IN [cache |-> [run.cache EXCEPT ![index] = lc2.set],
      hit_count |-> lc2.hit_count,
      miss_count |-> lc2.miss_count,
      eviction_count |-> lc2.eviction_count,
      global_timer |-> timer]

\* ------------------------------------------------------------------------
\* Reference set-associative LRU cache: per set the resident tags, most
\* recently used first; a set has a free slot while it holds fewer than E
\* tags.
\* ------------------------------------------------------------------------
Without(q, t) == SelectSeq(q, LAMBDA x : x # t)

Resident(q, t) == \E i \in 1..Len(q) : q[i] = t

RefLookup(r, index, tag) ==
  LET q == r.sets[index]
  IN IF Resident(q, tag)
     THEN [r EXCEPT !.hits = @ + 1, !.sets[index] = <<tag>> \o Without(q, tag)]
     ELSE IF Len(q) < E
     THEN [r EXCEPT !.misses = @ + 1, !.sets[index] = <<tag>> \o q]
     ELSE [r EXCEPT !.misses = @ + 1, !.evictions = @ + 1,
                    !.sets[index] = <<tag>> \o SubSeq(q, 1, Len(q) - 1)]

RefStep(r, k, index, tag) ==
  IF k = "I" THEN r
  ELSE LET r1 == RefLookup(r, index, tag)
       IN IF k = "M" THEN [r1 EXCEPT !.hits = @ + 1] ELSE r1

\* ------------------------------------------------------------------------
\* Initial state and actions
\* ------------------------------------------------------------------------
ThisRun == [cache |-> cache, hit_count |-> hit_count, miss_count |-> miss_count,
            eviction_count |-> eviction_count, global_timer |-> global_timer]

\* lines 16-30: globals, and the command line of lines 184-208
Init ==
  /\ pc = "main"
  /\ s \in 0..MaxS
  /\ b \in 0..MaxB
  /\ E \in (0 - MaxNegE)..MaxE
  /\ S = 0
  /\ cache = <<>>
  /\ hit_count = 0
  /\ miss_count = 0
  /\ eviction_count = 0
  /\ global_timer = 0
  /\ nread = 0
  /\ nLS = 0
  /\ nM = 0
  /\ accessed = <<>>
  /\ ref = [sets |-> <<>>, hits |-> 0, misses |-> 0, evictions |-> 0]
  /\ filtered = [cache |-> <<>>, hit_count |-> 0, miss_count |-> 0,
                 eviction_count |-> 0, global_timer |-> 0]
  /\ dec = <<>>

\* lines 211-215
main_usage ==
  /\ pc = "main"
  /\ (s = 0 \/ E = 0 \/ b = 0)
  /\ pc' = "usage"
  /\ UNCHANGED <<s, b, E, S, cache, hit_count, miss_count, eviction_count,
                 global_timer, nread, nLS, nM, accessed, ref, filtered, dec>>

\* lines 217-242
main_construct ==
  /\ pc = "main"
  /\ ~(s = 0 \/ E = 0 \/ b = 0)
  /\ S' = Pow2(s)
  /\ cache' = EmptyCache(Pow2(s), E)
  /\ filtered' = [filtered EXCEPT !.cache = EmptyCache(Pow2(s), E)]
  /\ ref' = [ref EXCEPT !.sets = [i \in 0..(Pow2(s) - 1) |-> <<>>]]
  /\ pc' = "read_file"
  /\ UNCHANGED <<s, b, E, hit_count, miss_count, eviction_count,
                 global_timer, nread, nLS, nM, accessed, dec>>

\* lines 227-232: with E < 0 the size E * sizeof(cache_line) wraps to nearly
\* 2^64, malloc returns NULL and every cache[i] is a null pointer; the
\* loops of lines 82, 102 and 117 do not run and line 123 writes through it
NullSet(k) == IsAccess(k) /\ E < 1

\* lines 61-142: one record of the trace
read_record(k, addr) ==
  /\ pc = "read_file"
  /\ nread < MaxTrace
  /\ ~NullSet(k)
  /\ LET run == LoopBody(ThisRun, k, addr)
     IN /\ cache' = run.cache
        /\ hit_count' = run.hit_count
        /\ miss_count' = run.miss_count
        /\ eviction_count' = run.eviction_count
        /\ global_timer' = run.global_timer
  /\ nread' = nread + 1
  /\ nLS' = IF k \in {"L", "S"} THEN nLS + 1 ELSE nLS
  /\ nM' = IF k = "M" THEN nM + 1 ELSE nM
  /\ accessed' = IF k = "I" THEN accessed
                 ELSE Append(accessed, <<Index(addr), Tag(addr)>>)
  /\ ref' = RefStep(ref, k, Index(addr), Tag(addr))
  /\ filtered' = IF k = "I" THEN filtered ELSE LoopBody(filtered, k, addr)
  /\ UNCHANGED <<pc, s, b, E, S, dec>>

\* lines 75, 78, 114-123: a data record on a null set; the counters are
\* bumped, then the store of line 123 faults
read_crash(k, addr) ==
  /\ pc = "read_file"
  /\ nread < MaxTrace
  /\ NullSet(k)
  /\ global_timer' = Tick(global_timer)
  /\ miss_count' = miss_count + 1
  /\ eviction_count' = eviction_count + 1
  /\ pc' = "crashed"
  /\ UNCHANGED <<s, b, E, S, cache, hit_count, nread, nLS, nM, accessed, ref,
                 filtered, dec>>

\* lines 61, 143: fgets returns NULL
end_of_file ==
  /\ pc = "read_file"
  /\ pc' = "done"
  /\ UNCHANGED <<s, b, E, S, cache, hit_count, miss_count, eviction_count,
                 global_timer, nread, nLS, nM, accessed, ref, filtered, dec>>

Next ==
  \/ main_usage
  \/ main_construct
  \/ \E k \in Kinds, addr \in Addrs : read_record(k, addr)
  \/ \E k \in Kinds, addr \in Addrs : read_crash(k, addr)
  \/ end_of_file

Spec == Init /\ [][Next]_vars

\* ------------------------------------------------------------------------
\* The address decoder on its own, over every geometry with s, b >= 1 and
\* s + b <= 64 (lines 71, 72 and 218).  Addresses stay below 2^31 here, so a
\* right shift by 31 or more yields 0.  Where C leaves the result undefined
\* the outcomes are those of the usual targets: a shift count taken modulo
\* the operand width, or shifted out entirely; an out-of-range double to int
\* conversion giving INT_MIN, or saturating.
\* ------------------------------------------------------------------------
\* line 13: unsigned long long
AddrBits == 64

\* line 72: the literal 1 is an int
IntBits == 32

IntMax == (Pow2(IntBits - 2) - 1) * 2 + 1

IntMin == (0 - IntMax) - 1

ShiftRightWide(x, n) == IF n >= IntBits - 1 THEN 0 ELSE ShiftRight(x, n)

\* line 71: address >> (b + s)
DecodeTagOutcomes(addr) ==
  IF b + s < AddrBits THEN {ShiftRightWide(addr, b + s)}
  ELSE {ShiftRightWide(addr, (b + s) % AddrBits), 0}

\* line 72: (1 << s) - 1, computed in int
DecodeMaskOutcomes ==
  IF s < IntBits - 1 THEN {ShiftLeft(1, s) - 1}
  ELSE IF s % IntBits = IntBits - 1 THEN {IntMax}
  ELSE {ShiftLeft(1, s % IntBits) - 1, 0 - 1}

\* line 72: (address >> b) & mask
DecodeIndexOutcomes(addr) ==
  {BitAnd(ShiftRightWide(addr, b), m) : m \in DecodeMaskOutcomes}

\* line 218: S = (int) pow(2, s)
DecodeSOutcomes ==
  IF s < IntBits - 1 THEN {Pow2(s)} ELSE {IntMin, IntMax}

InitDecode ==
  /\ pc = "decode"
  /\ s \in 1..(AddrBits - 1)
  /\ b \in 1..(AddrBits - 1)
  /\ s + b <= AddrBits
  /\ E = 1
  /\ S = 0
  /\ cache = <<>>
  /\ hit_count = 0
  /\ miss_count = 0
  /\ eviction_count = 0
  /\ global_timer = 0
  /\ nread = 0
  /\ nLS = 0
  /\ nM = 0
  /\ accessed = <<>>
  /\ ref = [sets |-> <<>>, hits |-> 0, misses |-> 0, evictions |-> 0]
  /\ filtered = [cache |-> <<>>, hit_count |-> 0, miss_count |-> 0,
                 eviction_count |-> 0, global_timer |-> 0]
  /\ dec = <<>>

\* lines 71-72 for one address, with S of line 218
decode(addr) ==
  /\ pc = "decode"
  /\ dec = <<>>
  /\ \E tg \in DecodeTagOutcomes(addr), ix \in DecodeIndexOutcomes(addr),
        ns \in DecodeSOutcomes :
       dec' = <<[address |-> addr, tag |-> tg, index |-> ix, S |-> ns]>>
  /\ UNCHANGED <<pc, s, b, E, S, cache, hit_count, miss_count, eviction_count,
                 global_timer, nread, nLS, nM, accessed, ref, filtered>>

NextDecode == \E addr \in Addrs : decode(addr)

SpecDecode == InitDecode /\ [][NextDecode]_vars

\* ------------------------------------------------------------------------
\* Properties
\* ------------------------------------------------------------------------
Started == pc = "read_file" \/ pc = "done"

Sets == 0..(S - 1)

Slots == 0..(E - 1)

Tags == {Tag(a) : a \in Addrs}

LastAccess(q) == q[Len(q)]

\* tags ever mapped to set i by the records read so far
SeenTags(i) == {accessed[n][2] : n \in {m \in 1..Len(accessed) : accessed[m][1] = i}}

\* position in the trace of the most recent access to tag t of set i (0: never)
LastPos(i, t) ==
  LET P == {n \in 1..Len(accessed) : accessed[n] = <<i, t>>}
  IN IF P = {} THEN 0 ELSE CHOOSE n \in P : \A m \in P : m <= n

HoldsTag(set, t) == \E j \in Slots : set[j].valid_bit = 1 /\ set[j].tag = t

NumValid(set) == Cardinality({j \in Slots : set[j].valid_bit = 1})

DataStep == Len(accessed') = Len(accessed) + 1

InstructionStep == nread' = nread + 1 /\ nLS' = nLS /\ nM' = nM

C2_Conservation == Started => hit_count + miss_count = nLS + 2 * nM

C2_Witness == Started /\ nLS >= 1 /\ nM >= 1 /\ nread > nLS + nM

\* C3: an evicting access replaces the line of the accessed set with the
\* smallest lru (lowest slot on a tie), and that line holds the resident tag
\* whose latest access is the oldest; with E = 2 the accesses A, B, A, C to one
\* set evict B and keep A.
C3_VictimIsLRU ==
  (DataStep /\ eviction_count' # eviction_count) =>
    LET i == LastAccess(accessed')[1]
        old == cache[i]
    IN \E v \in Slots :
         /\ cache'[i][v] # old[v]
         /\ \A j \in Slots \ {v} : cache'[i][j] = old[j]
         /\ \A j \in Slots : j < v => old[j].lru > old[v].lru
         /\ \A j \in Slots : j > v => old[j].lru >= old[v].lru
         /\ old[v].valid_bit = 1
         /\ LastPos(i, old[v].tag) > 0
         /\ \A j \in Slots \ {v} :
              /\ old[j].valid_bit = 1
              /\ LastPos(i, old[j].tag) > LastPos(i, old[v].tag)
         /\ ~HoldsTag(cache'[i], old[v].tag)

C3_IsABAC(i, A, B, C) ==
  /\ E = 2
  /\ A # B /\ A # C /\ B # C
  /\ accessed = << <<i, A>>, <<i, B>>, <<i, A>>, <<i, C>> >>

C3_ABAC ==
  \A i \in Sets, A \in Tags, B \in Tags, C \in Tags :
    C3_IsABAC(i, A, B, C) =>
      /\ eviction_count = 1
      /\ HoldsTag(cache[i], A)
      /\ HoldsTag(cache[i], C)
      /\ ~HoldsTag(cache[i], B)

C3_EvictsLeastRecentlyUsed == [][C3_VictimIsLRU]_vars /\ []C3_ABAC

C3_Witness ==
  \E i \in Sets, A \in Tags, B \in Tags, C \in Tags :
    C3_IsABAC(i, A, B, C) /\ eviction_count = 1

\* C4: no set holds two valid lines with the same tag.
C4_NoDuplicateTags ==
  Started =>
    \A i \in Sets : \A j1 \in Slots, j2 \in Slots :
      (j1 # j2 /\ cache[i][j1].valid_bit = 1 /\ cache[i][j2].valid_bit = 1)
        => cache[i][j1].tag # cache[i][j2].tag

C4_Witness ==
  /\ Started
  /\ hit_count >= 1
  /\ \E i \in Sets : NumValid(cache[i]) = 2 /\ Cardinality(SeenTags(i)) = 3

\* C5: a Modify record counts hit + hit or miss + hit, never two misses, and
\* leaves the accessed tag valid in its set with lru equal to global_timer.
C5_ModifyStep ==
  (nM' = nM + 1) =>
    LET i == LastAccess(accessed')[1]
        t == LastAccess(accessed')[2]
    IN /\ \/ hit_count' = hit_count + 2 /\ miss_count' = miss_count
          \/ hit_count' = hit_count + 1 /\ miss_count' = miss_count + 1
       /\ \E j \in Slots : /\ cache'[i][j].valid_bit = 1
                           /\ cache'[i][j].tag = t
                           /\ cache'[i][j].lru = global_timer'

C5_ModifyAlwaysHits == [][C5_ModifyStep]_vars

C5_Witness == nM = 2 /\ nLS = 0 /\ hit_count = 3 /\ miss_count = 1

\* C6: while no set has seen more than E distinct tags, evictions is 0.
C6_NoEvictionWithinCapacity ==
  Started =>
    ((\A i \in Sets : Cardinality(SeenTags(i)) <= E) => eviction_count = 0)

C6_Witness ==
  /\ Started
  /\ E = 2
  /\ Len(accessed) >= 3
  /\ \A i \in Sets : Cardinality(SeenTags(i)) <= E
  /\ \E i \in Sets : SeenTags(i) = {0, 1}

\* C7: evictions never exceed misses.
C7_EvictionsAtMostMisses == eviction_count <= miss_count

C7_Witness == eviction_count >= 2

\* C8: a Load or Store of the tag and set of the previous data access (with
\* any Instruction records in between) is a hit and nothing else.
C8_RepeatStep ==
  (nLS' = nLS + 1 /\ accessed # <<>> /\ LastAccess(accessed') = LastAccess(accessed)) =>
    /\ hit_count' = hit_count + 1
    /\ miss_count' = miss_count
    /\ eviction_count' = eviction_count

C8_RepeatedAccessHits == [][C8_RepeatStep]_vars

C8_Witness ==
  /\ nread = 3
  /\ nLS = 2
  /\ Len(accessed) = 2
  /\ accessed[1] = accessed[2]
  /\ global_timer = 3
  /\ \E j \in Slots : /\ cache[accessed[2][1]][j].lru = 3
                      /\ cache[accessed[2][1]][j].tag = accessed[2][2]
  /\ \A i \in Sets : NumValid(cache[i]) = IF i = accessed[2][1] THEN 1 ELSE 0

\* C9: an Instruction record changes no cache line and none of the counters.
C9_InstructionStep ==
  InstructionStep =>
    /\ cache' = cache
    /\ hit_count' = hit_count
    /\ miss_count' = miss_count
    /\ eviction_count' = eviction_count

C9_InstructionChangesNothing == [][C9_InstructionStep]_vars

C9_Witness ==
  /\ Started
  /\ nread > nLS + nM
  /\ miss_count >= 1
  /\ \A i \in Sets : \A j \in Slots : cache[i][j].lru < global_timer

\* C10: the counters equal those of the run on the same trace with its
\* Instruction records removed.
C10_InstructionsInvisible ==
  Started => /\ hit_count = filtered.hit_count
             /\ miss_count = filtered.miss_count
             /\ eviction_count = filtered.eviction_count

C10_Witness ==
  /\ pc = "done"
  /\ nread > nLS + nM
  /\ eviction_count >= 1
  /\ hit_count >= 1
  /\ global_timer > filtered.global_timer

\* C11: a geometry with s < 1, b < 1 or E < 1 ends in the usage error before
\* any set is built and before any record is read.
C11_InvalidGeometryRejected ==
  (s < 1 \/ b < 1 \/ E < 1) =>
    /\ pc = "main" \/ pc = "usage"
    /\ cache = <<>>
    /\ nread = 0
    /\ global_timer = 0

\* <<index, tag>> of the trace "L 0,1" then "L 4,1" under the geometry in use
C12_Trace == << <<Index(0), Tag(0)>>, <<Index(4), Tag(4)>> >>

C12_TraceRead == nread = 2 /\ nLS = 2 /\ accessed = C12_Trace

\* C12 as stated: with s = 0, b = 0, E = 1 the run reaches its report, and on
\* Load 0 then Load 4 the report is hits 0, misses 2, evictions 1.
C12_ZeroBitsGeometryReports ==
  (s = 0 /\ b = 0 /\ E = 1 /\ pc \in {"usage", "crashed", "done"}) =>
    /\ pc = "done"
    /\ C12_TraceRead =>
         (hit_count = 0 /\ miss_count = 2 /\ eviction_count = 1)

\* C12 amended: s = 0, b = 0, E = 1 ends in the usage error with no record
\* read; under s = 1, b = 1, E = 1, Load 0 then Load 4 reports hits 0,
\* misses 2, evictions 1.
C12_SmallestGeometryReports ==
  /\ (s = 0 /\ b = 0 /\ E = 1 /\ pc # "main") =>
       /\ pc = "usage"
       /\ nread = 0
       /\ hit_count = 0 /\ miss_count = 0 /\ eviction_count = 0
  /\ (s = 1 /\ b = 1 /\ E = 1 /\ pc = "done" /\ C12_TraceRead) =>
       (hit_count = 0 /\ miss_count = 2 /\ eviction_count = 1)

C12_Witness == s = 1 /\ b = 1 /\ E = 1 /\ pc = "done" /\ C12_TraceRead

\* C13: for s, b >= 1 and s + b <= 64 the decoder yields
\* setIndex = (address >> b) mod 2^s and tag = address >> (b + s), and
\* setIndex lies in 0..S-1, S being the number of sets main allocates.
C13_DecoderMatchesFormula ==
  dec # <<>> =>
    LET d == dec[1]
        x == ShiftRightWide(d.address, b)
    IN /\ d.index = (IF s >= IntBits - 1 THEN x ELSE x % Pow2(s))
       /\ d.tag = ShiftRightWide(d.address, b + s)
       /\ 0 <= d.index
       /\ d.index <= d.S - 1

C15_EvictionStep ==
  DataStep =>
    LET i == LastAccess(accessed')[1]
        t == LastAccess(accessed')[2]
        old == cache[i]
        full == \A j \in Slots : old[j].valid_bit = 1
    IN /\ eviction_count' = eviction_count \/ eviction_count' = eviction_count + 1
       /\ (eviction_count' = eviction_count + 1) <=> (full /\ ~HoldsTag(old, t))
       /\ (miss_count' = miss_count + 1 /\ ~full) =>
            /\ eviction_count' = eviction_count
            /\ \A j \in Slots : old[j].valid_bit = 1 => cache'[i][j] = old[j]

C15_EvictsOnlyWhenFull == [][C15_EvictionStep]_vars

C15_Witness ==
  /\ Started
  /\ E = 2
  /\ Len(accessed) = 4
  /\ miss_count = 4
  /\ eviction_count = 1
  /\ \E i \in Sets : NumValid(cache[i]) = 1

\* C16: a Load, Store or Modify record changes at most one line, in the set of
\* its index; all other lines of the cache stay as they were.
C16_FrameStep ==
  DataStep =>
    LET i == LastAccess(accessed')[1]
    IN /\ DOMAIN cache' = DOMAIN cache
       /\ \A k \in Sets \ {i} : cache'[k] = cache[k]
       /\ Cardinality({j \in Slots : cache'[i][j] # cache[i][j]}) <= 1

C16_OneLinePerRecord == [][C16_FrameStep]_vars

C16_Witness ==
  /\ Started
  /\ E = 2
  /\ \E i \in Sets, k \in Sets :
       i # k /\ NumValid(cache[i]) = 2 /\ NumValid(cache[k]) = 1

\* the lookup of lines 82-98 on this set and tag ends in the branch of line 92
InvalidMatchTaken(set, t) ==
  LookupLoop([set |-> set, if_dealt_with |-> 0, hit_count |-> 0,
              miss_count |-> 0, eviction_count |-> 0], t, 0, 0).miss_count = 1

LowestInvalid(set) ==
  CHOOSE j \in Slots : /\ set[j].valid_bit # 1
                       /\ \A k \in Slots : k < j => set[k].valid_bit = 1

\* C17 as stated: no access ever takes the fill path of an invalid line whose
\* stored tag matches.
C17_NeverStep ==
  DataStep =>
    ~InvalidMatchTaken(cache[LastAccess(accessed')[1]], LastAccess(accessed')[2])

C17_InvalidMatchNeverTaken == [][C17_NeverStep]_vars

\* C17 amended: the path is taken exactly by an access to tag 0 of a set that
\* does not hold tag 0 and has an invalid line (fresh lines store tag 0); it
\* then fills the lowest invalid slot with one miss and no eviction; no line
\* is ever invalidated.
C17_TagZeroStep ==
  DataStep =>
    LET i == LastAccess(accessed')[1]
        t == LastAccess(accessed')[2]
        old == cache[i]
        taken == InvalidMatchTaken(old, t)
    IN /\ taken <=> /\ t = 0
                    /\ ~HoldsTag(old, 0)
                    /\ \E j \in Slots : old[j].valid_bit # 1
       /\ taken =>
            /\ miss_count' = miss_count + 1
            /\ eviction_count' = eviction_count
            /\ cache'[i] = [old EXCEPT ![LowestInvalid(old)] =
                              [valid_bit |-> 1, tag |-> 0, lru |-> global_timer']]
       /\ \A k \in Sets : \A j \in Slots :
            cache[k][j].valid_bit = 1 => cache'[k][j].valid_bit = 1

C17_InvalidMatchOnlyForTagZero == [][C17_TagZeroStep]_vars

C17_Witness ==
  /\ Started
  /\ E = 2
  /\ eviction_count = 0
  /\ \E i \in Sets : /\ cache[i][0].valid_bit = 1 /\ cache[i][0].tag # 0
                     /\ cache[i][1].valid_bit = 1 /\ cache[i][1].tag = 0

\* C18: a line is valid exactly when its lru is non-zero, an invalid line
\* still has tag 0 and lru 0, and the free-slot test of line 103 picks exactly
\* the invalid lines.
C18_ValidIffUsed ==
  Started =>
    \A i \in Sets : \A j \in Slots :
      LET ln == cache[i][j]
      IN /\ (ln.valid_bit = 1) <=> (ln.lru # 0)
         /\ ln.valid_bit # 1 => (ln.valid_bit = 0 /\ ln.tag = 0 /\ ln.lru = 0)
         /\ IsFree(ln) <=> (ln.valid_bit # 1)

C18_Witness ==
  /\ Started
  /\ E = 2
  /\ eviction_count >= 1
  /\ \E i \in Sets : NumValid(cache[i]) = 1

\* C19: the valid lines of every set are the slots 0..k-1 for some k.
C19_ValidPrefix ==
  Started =>
    \A i \in Sets : \A j \in Slots :
      cache[i][j].valid_bit = 1 =>
        \A k \in Slots : k < j => cache[i][k].valid_bit = 1

C19_Witness ==
  /\ Started
  /\ E = 2
  /\ \E i \in Sets : /\ NumValid(cache[i]) = 1
                     /\ cache[i][0].valid_bit = 1
                     /\ cache[i][0].tag = 0
  /\ \E i \in Sets : NumValid(cache[i]) = 2 /\ cache[i][1].tag = 0

\* C20: the valid lines of the whole cache have pairwise distinct lru values,
\* each within 1..global_timer, so the least lru of a full set is unique.
C20_DistinctTimestamps ==
  Started =>
    \A i \in Sets : \A j \in Slots :
      cache[i][j].valid_bit = 1 =>
        /\ 1 <= cache[i][j].lru
        /\ cache[i][j].lru <= global_timer
        /\ \A i2 \in Sets : \A j2 \in Slots :
             (<<i2, j2>> # <<i, j>> /\ cache[i2][j2].valid_bit = 1)
               => cache[i2][j2].lru # cache[i][j].lru

C20_Witness ==
  /\ Started
  /\ E = 2
  /\ eviction_count = 1
  /\ \E i \in Sets, k \in Sets :
       i # k /\ NumValid(cache[i]) = 2 /\ NumValid(cache[k]) = 1

====
